---------------------------- MODULE Spec2Model ----------------------------
(***************************************************************************)
(* A model of the local retrieval engine of document-chatbot-ai:           *)
(*   - splitText and run, the ingestion script (scripts/ingest-data.ts)    *)
(*   - cosineSimilarity / searchLocalIndex     (utils/local-rag.ts)        *)
(*   - readLocalIndex / writeLocalIndex        (utils/local-rag.ts)        *)
(*   - embedQuery and the chat handler         (pages/api/chat.ts)         *)
(* Strings that the code inspects character by character are sequences of  *)
(* one-character strings; vectors are sequences of integers.               *)
(***************************************************************************)
EXTENDS Integers, Sequences, FiniteSets, TLC

VARIABLES
    \* ---- splitText (one call, its loop unrolled into steps)
    text, chunkSize, chunkOverlap, normalized, overlap, start, chunks,
    windows, splitPc,
    \* ---- searchLocalIndex (one call)
    searchIndex, searchQuery, searchTopK, searchResult, searchPc,
    \* ---- the artifact data/local-index.json, one writeLocalIndex call and
    \*      concurrent readLocalIndex calls
    dataDir, localIndexFile, previousFile, writeIndex, written, writePc,
    readPos, readContent, readResult, readPc,
    \* ---- the serving process: embeddingCache and the requests in flight
    embeddingCache, embedRequests, requests, handler,
    \* ---- run, the ingestion script
    pdfFiles, fileIndex, fileChunks, chunkIndex, items, embedLog,
    ingestError, ingestPc

splitVars == <<text, chunkSize, chunkOverlap, normalized, overlap, start,
               chunks, windows, splitPc>>

searchVars == <<searchIndex, searchQuery, searchTopK, searchResult, searchPc>>

fileVars == <<dataDir, localIndexFile, previousFile>>

writeVars == <<writeIndex, written, writePc>>

readVars == <<readPos, readContent, readResult, readPc>>

storeVars == <<fileVars, writeVars, readVars>>

chatVars == <<embeddingCache, embedRequests, requests, handler>>

ingestVars == <<pdfFiles, fileIndex, fileChunks, chunkIndex, items, embedLog,
                ingestError, ingestPc>>

vars == <<splitVars, searchVars, storeVars, chatVars, ingestVars>>

-----------------------------------------------------------------------------
(* Generic helpers standing for JavaScript built-ins.                      *)

Min(a, b) == IF a < b THEN a ELSE b

Max(a, b) == IF a > b THEN a ELSE b

\* s.slice(from, to) for 0 <= from <= to <= s.length (0-based, to exclusive).
Slice(s, from, to) == [i \in 1..(to - from) |-> s[from + i]]

\* All sequences over S of length 0..n.
SeqsUpTo(S, n) == UNION {[1..k -> S] : k \in 0..n}

\* Array.prototype.join : the elements with sep between neighbours.
RECURSIVE Join(_, _)
Join(ss, sep) ==
    IF ss = <<>> THEN <<>>
    ELSE IF Len(ss) = 1 THEN ss[1]
    ELSE Join(SubSeq(ss, 1, Len(ss) - 1), sep) \o sep \o ss[Len(ss)]

-----------------------------------------------------------------------------
(* LocalIndex and LocalIndexItem                                           *)

MaxItems == 5

MaxTopK == 5

DefaultTopK == 4

EmbedModel == "nomic-embed-text"

\* A JSON object is a record together with the set of the fields it really
\* has (fields): a field outside that set is undefined in the program.
ItemFields == {"id", "embedding", "metadata"}

IndexFields == {"embeddingModel", "dimension", "createdAt", "items"}

Digits == <<"1", "2", "3", "4", "5", "6", "7", "8", "9">>

\* createHash('sha1').update(`${source}:${chunkIndex}`).digest('hex'): the
\* digest is taken to be free of collisions, so it stands for the pair.
vectorId(source, chunk) == <<source, chunk>>

\* The LocalIndexItem of chunk i - 1 of docs/a.pdf, with embedding v.
MkItem(i, v) ==
    [id |-> vectorId("docs/a.pdf", i - 1), embedding |-> v,
     metadata |-> [text |-> <<"t", Digits[i]>>, source |-> "docs/a.pdf",
                   chunk |-> i - 1],
     fields |-> ItemFields]

\* LocalIndex (the value of createdAt, a timestamp, is left out).
MkIndex(vs) ==
    [embeddingModel |-> EmbedModel,
     dimension |-> IF vs = <<>> THEN 0 ELSE Len(vs[1]),
     items |-> [i \in 1..Len(vs) |-> MkItem(i, vs[i])],
     fields |-> IndexFields]

NoIndex ==
    [embeddingModel |-> "", dimension |-> 0, items |-> <<>>, fields |-> {}]

NoItem ==
    [id |-> vectorId("", 0), embedding |-> <<>>,
     metadata |-> [text |-> <<>>, source |-> "", chunk |-> 0], fields |-> {}]

-----------------------------------------------------------------------------
(* cosineSimilarity and searchLocalIndex                                   *)
(*                                                                         *)
(* Vectors hold integers.  The real number dot / (magA * magB) is kept     *)
(* exactly as its signed square, the rational                              *)
(*     sign(dot) * dot^2 / (magA^2 * magB^2)   written <<num, den>>,       *)
(* den > 0.  x |-> sign(x) * x^2 is strictly increasing, so scores compare *)
(* and are equal exactly as the real numbers are (floating-point rounding  *)
(* is not modelled).                                                       *)

RECURSIVE dotProductFrom(_, _, _, _)
dotProductFrom(a, b, i, size) ==
    IF i > size THEN 0 ELSE a[i] * b[i] + dotProductFrom(a, b, i + 1, size)

\* The loop runs over the first Math.min(a.length, b.length) positions.
dotProduct(a, b) == dotProductFrom(a, b, 1, Min(Len(a), Len(b)))

\* magnitude(values)^2 : the total magnitude takes the square root of.
RECURSIVE magnitudeSquared(_)
magnitudeSquared(values) ==
    IF values = <<>> THEN 0
    ELSE values[1] * values[1] + magnitudeSquared(Tail(values))

Sign(x) == IF x > 0 THEN 1 ELSE IF x < 0 THEN -1 ELSE 0

\* !magA || !magB returns 0; otherwise dotProduct(a, b) / (magA * magB).
cosineSimilarity(a, b) ==
    LET magA2 == magnitudeSquared(a)
        magB2 == magnitudeSquared(b)
        dot == dotProduct(a, b)
    IN  IF magA2 = 0 \/ magB2 = 0 THEN <<0, 1>>
        ELSE <<Sign(dot) * dot * dot, magA2 * magB2>>

\* The sign of the number x - y, for scores x and y.
ScoreDiff(x, y) == Sign(x[1] * y[2] - y[1] * x[2])

\* A comparator that orders ascending.
CompareAscending(a, b) == ScoreDiff(a.score, b.score)

\* (a, b) => b.score - a.score
Compare(a, b) == ScoreDiff(b.score, a.score)

\* x put behind every element that does not have to follow it.
RECURSIVE InsertSorted(_, _)
InsertSorted(sorted, x) ==
    IF sorted = <<>> THEN <<x>>
    ELSE LET n == Len(sorted)
         IN  IF Compare(sorted[n], x) > 0
             THEN Append(InsertSorted(SubSeq(sorted, 1, n - 1), x), sorted[n])
             ELSE Append(sorted, x)

\* Array.prototype.sort with a comparator: a stable sort.
RECURSIVE SortStable(_)
SortStable(s) ==
    IF s = <<>> THEN <<>>
    ELSE InsertSorted(SortStable(SubSeq(s, 1, Len(s) - 1)), s[Len(s)])

\* scored.slice(0, topK), topK >= 0
SliceFirst(s, k) == SubSeq(s, 1, Min(k, Len(s)))

\* The topK parameter: <<>> when the argument is omitted (topK = 4).
TopKOrDefault(k) == IF k = <<>> THEN DefaultTopK ELSE k[1]

searchLocalIndex(index, queryEmbedding, topK) ==
    LET scored == [i \in 1..Len(index.items) |->
                     [item |-> index.items[i],
                      score |-> cosineSimilarity(queryEmbedding,
                                                 index.items[i].embedding)]]
        sorted == SortStable(scored)
        top == SliceFirst(sorted, TopKOrDefault(topK))
    IN  [i \in 1..Len(top) |-> top[i].item]

\* Embeddings of records: the vectors [1,0], [0,1], [0.9,0.1] scaled by 10 or
\* 1, and the zero vector; equal scores come from repeated vectors and from
\* the zero vector against an orthogonal one.
ItemVectors == {<<1, 0>>, <<0, 1>>, <<9, 1>>, <<0, 0>>}

QueryVectors == {<<1, 0>>, <<-1, 1>>, <<0, 0>>, <<1>>}

-----------------------------------------------------------------------------
(* JSON.stringify / JSON.parse and the file LOCAL_INDEX_PATH                *)
(*                                                                         *)
(* The text of the artifact is a sequence of tokens: the opening of the    *)
(* object with its scalar fields, one token per element of items, and the  *)
(* closing.                                                                *)

TokOpen(index) ==
    [kind |-> "open", embeddingModel |-> index.embeddingModel,
     dimension |-> index.dimension, fields |-> index.fields, item |-> NoItem]

TokItem(it) ==
    [kind |-> "item", embeddingModel |-> "", dimension |-> 0, fields |-> {},
     item |-> it]

TokClose ==
    [kind |-> "close", embeddingModel |-> "", dimension |-> 0, fields |-> {},
     item |-> NoItem]

\* JSON.stringify(index, null, 2)
Stringify(index) ==
    <<TokOpen(index)>>
        \o [i \in 1..Len(index.items) |-> TokItem(index.items[i])]
        \o <<TokClose>>

\* Whether JSON.parse accepts the text.
IsJson(content) ==
    /\ Len(content) >= 2
    /\ content[1].kind = "open"
    /\ content[Len(content)].kind = "close"
    /\ \A i \in 2..(Len(content) - 1) : content[i].kind = "item"

\* JSON.parse(content) for a text it accepts.
ParseJson(content) ==
    [embeddingModel |-> content[1].embeddingModel,
     dimension |-> content[1].dimension,
     items |-> [i \in 1..(Len(content) - 2) |-> content[i + 1].item],
     fields |-> content[1].fields]

\* What a call of readLocalIndex gives: a LocalIndex or a thrown error.
Returned(index) == [kind |-> "returned", index |-> index]

Thrown(error) == [kind |-> error, index |-> NoIndex]

Pending == [kind |-> "pending", index |-> NoIndex]

\* A file: whether it exists and its text.
NoFile == [exists |-> FALSE, content |-> <<>>]

FileOf(content) == [exists |-> TRUE, content |-> content]

\* JSON.parse(content) as LocalIndex of line 65.
ParseContent(content) ==
    IF IsJson(content) THEN Returned(ParseJson(content))
    ELSE Thrown("SyntaxError")

\* readLocalIndex on a file nobody writes meanwhile.
ReadWhole(file) ==
    IF ~file.exists THEN Thrown("ENOENT") ELSE ParseContent(file.content)

-----------------------------------------------------------------------------
(* splitText: its pure parts                                               *)

MaxTextLen == 4

MaxChunkSize == 4

Alphabet == {"a", "b", " ", "\n"}

\* The characters the regular expression class \s matches (of Alphabet).
IsSpace(c) == c \in {" ", "\n"}

\* text.replace(/\s+/g, ' ') : every maximal whitespace run becomes one space.
CollapseWhitespace(s) ==
    LET marked == [i \in 1..Len(s) |->
                     <<IF IsSpace(s[i]) THEN " " ELSE s[i],
                       ~IsSpace(s[i]) \/ i = 1 \/ ~IsSpace(s[i - 1])>>]
        kept == SelectSeq(marked, LAMBDA m : m[2])
    IN  [i \in 1..Len(kept) |-> kept[i][1]]

\* String.prototype.trim : whitespace removed from both ends.
RECURSIVE Trim(_)
Trim(s) ==
    IF s = <<>> THEN <<>>
    ELSE IF IsSpace(s[1]) THEN Trim(Tail(s))
    ELSE IF IsSpace(s[Len(s)]) THEN Trim(SubSeq(s, 1, Len(s) - 1))
    ELSE s

Normalize(s) == Trim(CollapseWhitespace(s))

\* A clamp that lets the overlap reach chunkSize.
ClampOverlapOffByOne(co, cs) == Min(Max(co, 0), cs)

\* Math.min(Math.max(chunkOverlap, 0), chunkSize - 1)
ClampOverlap(co, cs) == Min(Max(co, 0), cs - 1)

\* A window that advances without stepping back by the overlap.
NextStartNoOverlap(end, ov) == end

\* start = end - overlap
NextStart(end, ov) == end - ov

\* The while loop of lines 22-29 from a given start, as one function.
RECURSIVE splitFrom(_, _, _, _)
splitFrom(norm, from, cs, ov) ==
    IF from < Len(norm)
    THEN LET end == Min(from + cs, Len(norm))
         IN  <<Slice(norm, from, end)>>
                \o (IF end = Len(norm) THEN <<>>
                    ELSE splitFrom(norm, NextStart(end, ov), cs, ov))
    ELSE <<>>

\* splitText as the ingestion run calls it.
splitText(t, cs, co) ==
    LET norm == Normalize(t)
    IN  IF norm = <<>> THEN <<>>
        ELSE splitFrom(norm, 0, cs, ClampOverlap(co, cs))

-----------------------------------------------------------------------------
(* pages/api/chat.ts: its pure parts                                       *)

\* The invocations of handler that can be in flight at once.
Procs == {"r1", "r2"}

MaxRequests == 3

Methods == {"POST", "GET"}

\* req.body.question: absent or empty, plain, padded, with an inner newline.
Questions == {<<>>, <<"q">>, <<" ", "q", "\n">>, <<"q", "\n", "Q">>}

\* String(question).trim().replaceAll('\n', ' ')
Sanitize(question) ==
    LET trimmed == Trim(question)
    IN  [i \in 1..Len(trimmed) |->
            IF trimmed[i] = "\n" THEN " " ELSE trimmed[i]]

\* An Error object: its class, its code property, and for an ApiError its
\* status.
MkError(name, code, status, message) ==
    [name |-> name, code |-> code, status |-> status, message |-> message]

ApiError(message, status) == MkError("ApiError", "", status, message)

\* The error a failed readLocalIndex rejects with.
ReadError(kind) ==
    IF kind = "ENOENT"
    THEN MkError("Error", "ENOENT", 0, "ENOENT: no such file or directory")
    ELSE MkError("SyntaxError", "", 0, "Unexpected end of JSON input")

TypeError == MkError("TypeError", "", 0, "Cannot read properties of undefined")

\* What res.status(..).json(..) sends.
Response(status, kind, message, sourceDocuments) ==
    [status |-> status, kind |-> kind, text |-> message,
     sourceDocuments |-> sourceDocuments]

NoResponse == Response(0, "none", "", <<>>)

\* Line 176 (the message's backquotes are left out).
IndexNotFoundMessage == "Local index not found. Run npm run ingest first."

\* A catch block without the ENOENT case.
ErrorResponseGeneric(error) ==
    IF error.name = "ApiError"
    THEN Response(error.status, "error", error.message, <<>>)
    ELSE Response(500, "error", error.message, <<>>)

\* Lines 173-188: the catch block of handler.
ErrorResponse(error) ==
    IF error.code = "ENOENT"
    THEN Response(400, "error", IndexNotFoundMessage, <<>>)
    ELSE IF error.name = "ApiError"
    THEN Response(error.status, "error", error.message, <<>>)
    ELSE Response(500, "error", error.message, <<>>)

\* embeddingCache.get(input): <<>> for undefined, <<v>> for the vector v.
CacheGet(cache, input) ==
    IF input \in DOMAIN cache THEN <<cache[input]>> ELSE <<>>

\* A test that also takes an empty vector for a miss.
CacheHitNonEmpty(cached) == cached # <<>> /\ cached[1] # <<>>

\* if (cached) : an array, empty or not, is truthy; undefined is not.
CacheHit(cached) == cached # <<>>

\* embeddingCache.set(input, embedding)
CacheSet(cache, input, embedding) ==
    [k \in (DOMAIN cache) \cup {input} |->
        IF k = input THEN embedding ELSE cache[k]]

\* The vectors the embedding service answers with at query time.
EmbedVectors == {<<1, 0>>, <<>>}

Outcome(kind, status, vector) ==
    [kind |-> kind, status |-> status, vector |-> vector]

\* What the fetch of /api/embed can come to: no connection, a non-success
\* status, a body that is not JSON, JSON without a vector, or a vector in
\* the field embeddings[0] or embedding.
EmbedOutcomes ==
    {Outcome("unreachable", 0, <<>>), Outcome("status", 404, <<>>),
     Outcome("badJson", 200, <<>>), Outcome("noVector", 200, <<>>)}
        \cup {Outcome(k, 200, v) : k \in {"embeddings", "embedding"},
                                   v \in EmbedVectors}

EmbedSucceeds(outcome) == outcome.kind \in {"embeddings", "embedding"}

\* Lines 45-72: the error embedQuery throws on a failed outcome.
EmbedQueryError(outcome) ==
    IF outcome.kind = "unreachable"
    THEN ApiError("Could not connect to Ollama", 503)
    ELSE IF outcome.kind = "status"
    THEN ApiError("Failed to create embedding", outcome.status)
    ELSE IF outcome.kind = "badJson"
    THEN MkError("SyntaxError", "", 0, "Unexpected token in JSON")
    ELSE ApiError("Ollama embedding response did not include an embedding vector",
                  500)

\* What the fetch of /api/chat can come to.
ChatOutcomes ==
    {Outcome("unreachable", 0, <<>>), Outcome("status", 500, <<>>),
     Outcome("content", 200, <<>>), Outcome("noContent", 200, <<>>)}

\* Lines 112-126: the error chatCompletion throws on a failed outcome.
ChatCompletionError(outcome) ==
    IF outcome.kind = "unreachable"
    THEN ApiError("Could not connect to Ollama", 503)
    ELSE ApiError("Failed to generate answer", outcome.status)

\* Line 131: data.message?.content || ''
ChatCompletionText(outcome) ==
    IF outcome.kind = "content" THEN "answer" ELSE ""

\* searchLocalIndex throws a TypeError on index.items.map when items is
\* undefined, and in magnitude when an item's embedding is undefined.
SearchThrows(index) ==
    \/ "items" \notin index.fields
    \/ \E i \in 1..Len(index.items) : "embedding" \notin index.items[i].fields

\* Line 158: item.metadata.text throws a TypeError when metadata is undefined.
MapThrows(matches) ==
    \E i \in 1..Len(matches) : "metadata" \notin matches[i].fields

\* Lines 157-163
SourceDocuments(matches) ==
    [i \in 1..Len(matches) |->
        [pageContent |-> matches[i].metadata.text,
         metadata |-> [source |-> matches[i].metadata.source,
                       chunk |-> matches[i].metadata.chunk]]]

\* A context that separates the fragments by one newline only.
ContextSingleNewline(sourceDocuments) ==
    Join([i \in 1..Len(sourceDocuments) |-> sourceDocuments[i].pageContent],
         <<"\n">>)

\* Line 165: sourceDocuments.map((doc) => doc.pageContent).join('\n\n')
Context(sourceDocuments) ==
    Join([i \in 1..Len(sourceDocuments) |-> sourceDocuments[i].pageContent],
         <<"\n", "\n">>)

\* The index the serving process finds, when it is a sound one.
ServedIndex == MkIndex(<<<<0, 1>>, <<9, 1>>, <<1, 0>>, <<0, 0>>, <<1, 0>>>>)

\* JSON values that parse but are no LocalIndex: an object without items,
\* items without embedding, items without metadata.
WithoutItems ==
    [ServedIndex EXCEPT !.items = <<>>, !.fields = IndexFields \ {"items"}]

ItemsWithoutEmbedding ==
    [ServedIndex EXCEPT !.items =
        [i \in 1..Len(ServedIndex.items) |->
            [ServedIndex.items[i] EXCEPT !.embedding = <<>>,
                                         !.fields = ItemFields \ {"embedding"}]]]

ItemsWithoutMetadata ==
    [ServedIndex EXCEPT !.items =
        [i \in 1..Len(ServedIndex.items) |->
            [ServedIndex.items[i] EXCEPT !.metadata = NoItem.metadata,
                                         !.fields = ItemFields \ {"metadata"}]]]

\* What can lie at LOCAL_INDEX_PATH when a request arrives: nothing, a sound
\* artifact, a text cut short, an empty file, a JSON value of another shape.
Artifacts ==
    {NoFile,
     FileOf(Stringify(ServedIndex)),
     FileOf(SubSeq(Stringify(ServedIndex), 1, 3)),
     FileOf(<<>>),
     FileOf(Stringify(WithoutItems)),
     FileOf(Stringify(ItemsWithoutEmbedding)),
     FileOf(Stringify(ItemsWithoutMetadata))}

\* The locals of one invocation of handler; steps lists the calls made.
IdleHandler ==
    [pc |-> "idle", method |-> "", question |-> <<>>,
     sanitizedQuestion |-> <<>>, loaded |-> Pending, queryEmbedding |-> <<>>,
     matches |-> <<>>, context |-> <<>>, steps |-> <<>>,
     response |-> NoResponse]

-----------------------------------------------------------------------------
(* scripts/ingest-data.ts: its pure parts                                  *)

CHUNK_SIZE == 1000

CHUNK_OVERLAP == 200

MaxDocs == 2

Sources == <<"docs/a.pdf", "docs/b.pdf", "docs/c.pdf">>

Rep(c, n) == [i \in 1..n |-> c]

\* parsed.text of a PDF: only whitespace (no chunk), a short text (one
\* chunk), a text of 1001 characters (two chunks).
DocTexts ==
    {<<" ", "\n">>,
     <<"a", " ", "\n", "b">>,
     Rep("a", CHUNK_SIZE) \o <<"b">>}

\* The vectors the embedding service answers with at ingestion time.
IngestVectors == {<<1, 0>>, <<0, 1, 0>>}

\* A check that never finds the corpus empty.
EmptyItemsNever(its) == FALSE

\* Line 144: !items.length
EmptyItems(its) == Len(its) = 0

\* An index of the first record only.
BuiltIndexFirstOnly(its) ==
    [embeddingModel |-> EmbedModel,
     dimension |-> Len(its[1].embedding),
     items |-> <<its[1]>>,
     fields |-> IndexFields]

\* Lines 148-153: the LocalIndex that run hands to writeLocalIndex.
BuiltIndex(its) ==
    [embeddingModel |-> EmbedModel,
     dimension |-> Len(its[1].embedding),
     items |-> its,
     fields |-> IndexFields]

\* The artifact an earlier run left.
OldIndex == MkIndex(<<<<1, 0>>, <<0, 1>>>>)

NewIndexes == {MkIndex(<<<<9, 1>>, <<0, 0>>, <<1, 0>>>>), MkIndex(<<<<0, 1>>>>)}

-----------------------------------------------------------------------------
(* The parts of the program a specification leaves at rest.                *)

NumReaders == 2

Readers == 1..NumReaders

SplitIdle ==
    /\ text = <<>>
    /\ chunkSize = 1
    /\ chunkOverlap = 0
    /\ normalized = <<>>
    /\ overlap = 0
    /\ start = 0
    /\ chunks = <<>>
    /\ windows = <<>>
    /\ splitPc = "idle"

SearchIdle ==
    /\ searchIndex = NoIndex
    /\ searchQuery = <<>>
    /\ searchTopK = <<>>
    /\ searchResult = <<>>
    /\ searchPc = "idle"

WriteIdle ==
    /\ writeIndex = NoIndex
    /\ written = 0
    /\ writePc = "idle"

ReadIdle ==
    /\ readPos = [r \in Readers |-> 0]
    /\ readContent = [r \in Readers |-> <<>>]
    /\ readResult = [r \in Readers |-> Pending]
    /\ readPc = [r \in Readers |-> "idle"]

StoreIdle ==
    /\ dataDir = FALSE
    /\ localIndexFile = NoFile
    /\ previousFile = NoFile
    /\ WriteIdle
    /\ ReadIdle

ChatIdle ==
    /\ embeddingCache = <<>>
    /\ embedRequests = 0
    /\ requests = 0
    /\ handler = [p \in Procs |-> IdleHandler]

IngestIdle ==
    /\ pdfFiles = <<>>
    /\ fileIndex = 0
    /\ fileChunks = <<>>
    /\ chunkIndex = 0
    /\ items = <<>>
    /\ embedLog = <<>>
    /\ ingestError = ""
    /\ ingestPc = "idle"

-----------------------------------------------------------------------------
(* One call of splitText, step by step                                     *)

\* The state at the call, for a text over the characters of A.
SplitCall(A) ==
    /\ text \in SeqsUpTo(A, MaxTextLen)
    /\ chunkSize \in 1..MaxChunkSize
    /\ chunkOverlap \in -1..(MaxChunkSize + 1)
    /\ normalized = <<>>
    /\ overlap = 0
    /\ start = 0
    /\ chunks = <<>>
    /\ windows = <<>>
    /\ splitPc = "entry"
    /\ SearchIdle
    /\ StoreIdle
    /\ ChatIdle
    /\ IngestIdle

\* Lines 13-20: normalize, return [] for an empty text, clamp the overlap.
SplitEnter ==
    /\ splitPc = "entry"
    /\ normalized' = Normalize(text)
    /\ IF normalized' = <<>>
       THEN /\ splitPc' = "done"
            /\ UNCHANGED overlap
       ELSE /\ overlap' = ClampOverlap(chunkOverlap, chunkSize)
            /\ splitPc' = "loop"
    /\ start' = 0
    /\ chunks' = <<>>
    /\ windows' = <<>>
    /\ UNCHANGED <<text, chunkSize, chunkOverlap>>
    /\ UNCHANGED <<searchVars, storeVars, chatVars, ingestVars>>

\* Lines 22-29: one evaluation of the while condition and, if true, its body.
\* windows records the <<start, end>> of every fragment pushed.
SplitLoop ==
    /\ splitPc = "loop"
    /\ IF start < Len(normalized)
       THEN LET end == Min(start + chunkSize, Len(normalized))
            IN  /\ chunks' = Append(chunks, Slice(normalized, start, end))
                /\ windows' = Append(windows, <<start, end>>)
                /\ IF end = Len(normalized)
                   THEN /\ splitPc' = "done"
                        /\ UNCHANGED start
                   ELSE /\ start' = NextStart(end, overlap)
                        /\ splitPc' = "loop"
       ELSE /\ splitPc' = "done"
            /\ UNCHANGED <<chunks, windows, start>>
    /\ UNCHANGED <<text, chunkSize, chunkOverlap, normalized, overlap>>
    /\ UNCHANGED <<searchVars, storeVars, chatVars, ingestVars>>

SplitInit == SplitCall(Alphabet)

\* Termination does not depend on which non-blank characters the text holds.
SplitFairInit == SplitCall({"a", " ", "\n"})

SplitNext == SplitEnter \/ SplitLoop

SplitSpec == SplitInit /\ [][SplitNext]_vars

\* A call, once made, runs: the loop is ordinary sequential code.
SplitFairSpec == SplitFairInit /\ [][SplitNext]_vars /\ WF_vars(SplitNext)

-----------------------------------------------------------------------------
(* One call of searchLocalIndex                                            *)

SearchInit ==
    /\ searchIndex \in {MkIndex(vs) : vs \in SeqsUpTo(ItemVectors, MaxItems)}
    /\ searchQuery \in QueryVectors
    /\ searchTopK \in {<<>>} \cup {<<k>> : k \in 0..MaxTopK}
    /\ searchResult = <<>>
    /\ searchPc = "call"
    /\ SplitIdle
    /\ StoreIdle
    /\ ChatIdle
    /\ IngestIdle

Search ==
    /\ searchPc = "call"
    /\ searchResult' = searchLocalIndex(searchIndex, searchQuery, searchTopK)
    /\ searchPc' = "done"
    /\ UNCHANGED <<searchIndex, searchQuery, searchTopK>>
    /\ UNCHANGED <<splitVars, storeVars, chatVars, ingestVars>>

SearchNext == Search

SearchSpec == SearchInit /\ [][SearchNext]_vars

-----------------------------------------------------------------------------
(* writeLocalIndex and readLocalIndex, step by step                        *)
(*                                                                         *)
(* fs.writeFile opens the file with flag 'w' (created, or cut to length    *)
(* zero) and then writes the text in one or more write calls; fs.readFile  *)
(* opens the file and reads it in one or more read calls up to the end of  *)
(* the file.  Neither takes a lock.                                        *)

\* A complete earlier artifact or none; one writeLocalIndex(index) call and
\* NumReaders readLocalIndex calls about to start.
StoreInit ==
    /\ localIndexFile \in {NoFile, FileOf(Stringify(OldIndex))}
    /\ dataDir \in {localIndexFile.exists, TRUE}
    /\ previousFile = localIndexFile
    /\ writeIndex \in NewIndexes
    /\ written = 0
    /\ writePc = "mkdir"
    /\ readPos = [r \in Readers |-> 0]
    /\ readContent = [r \in Readers |-> <<>>]
    /\ readResult = [r \in Readers |-> Pending]
    /\ readPc = [r \in Readers |-> "open"]
    /\ SplitIdle
    /\ SearchIdle
    /\ ChatIdle
    /\ IngestIdle

\* Line 70: fs.mkdir(folder, { recursive: true })
WriteMkdir ==
    /\ writePc = "mkdir"
    /\ dataDir' = TRUE
    /\ writePc' = "open"
    /\ UNCHANGED <<localIndexFile, previousFile, writeIndex, written>>
    /\ UNCHANGED <<readVars, splitVars, searchVars, chatVars, ingestVars>>

\* Line 71, fs.writeFile: the file is opened with flag 'w', which creates it
\* or cuts it to length zero.
WriteOpen ==
    /\ writePc = "open"
    /\ localIndexFile' = FileOf(<<>>)
    /\ written' = 0
    /\ writePc' = "write"
    /\ UNCHANGED <<dataDir, previousFile, writeIndex>>
    /\ UNCHANGED <<readVars, splitVars, searchVars, chatVars, ingestVars>>

\* Line 71, fs.writeFile: one write call puts n more tokens at the end; with
\* all of them written the file is closed and the promise resolves.
WriteChunk ==
    /\ writePc = "write"
    /\ LET content == Stringify(writeIndex)
       IN  IF written = Len(content)
           THEN /\ writePc' = "done"
                /\ UNCHANGED <<localIndexFile, written>>
           ELSE \E n \in 1..(Len(content) - written) :
                   /\ localIndexFile' =
                         FileOf(localIndexFile.content
                                   \o SubSeq(content, written + 1, written + n))
                   /\ written' = written + n
                   /\ writePc' = "write"
    /\ UNCHANGED <<dataDir, previousFile, writeIndex>>
    /\ UNCHANGED <<readVars, splitVars, searchVars, chatVars, ingestVars>>

\* Line 64, fs.readFile: the open; a missing file rejects with code ENOENT.
ReadOpen(r) ==
    /\ readPc[r] = "open"
    /\ IF localIndexFile.exists
       THEN /\ readPc' = [readPc EXCEPT ![r] = "read"]
            /\ UNCHANGED readResult
       ELSE /\ readPc' = [readPc EXCEPT ![r] = "done"]
            /\ readResult' = [readResult EXCEPT ![r] = Thrown("ENOENT")]
    /\ UNCHANGED <<readPos, readContent>>
    /\ UNCHANGED <<fileVars, writeVars, splitVars, searchVars, chatVars,
                   ingestVars>>

\* Line 64, fs.readFile: one read call takes the next n tokens of the file.
ReadChunk(r) ==
    /\ readPc[r] = "read"
    /\ readPos[r] < Len(localIndexFile.content)
    /\ \E n \in 1..(Len(localIndexFile.content) - readPos[r]) :
          /\ readContent' =
                [readContent EXCEPT ![r] =
                    @ \o SubSeq(localIndexFile.content, readPos[r] + 1,
                                readPos[r] + n)]
          /\ readPos' = [readPos EXCEPT ![r] = @ + n]
    /\ UNCHANGED <<readResult, readPc>>
    /\ UNCHANGED <<fileVars, writeVars, splitVars, searchVars, chatVars,
                   ingestVars>>

\* Lines 64-65: a read call at or past the end of the file ends fs.readFile,
\* and JSON.parse runs on what was read.
ReadEnd(r) ==
    /\ readPc[r] = "read"
    /\ readPos[r] >= Len(localIndexFile.content)
    /\ readResult' = [readResult EXCEPT ![r] = ParseContent(readContent[r])]
    /\ readPc' = [readPc EXCEPT ![r] = "done"]
    /\ UNCHANGED <<readPos, readContent>>
    /\ UNCHANGED <<fileVars, writeVars, splitVars, searchVars, chatVars,
                   ingestVars>>

StoreNext ==
    \/ WriteMkdir
    \/ WriteOpen
    \/ WriteChunk
    \/ \E r \in Readers : ReadOpen(r) \/ ReadChunk(r) \/ ReadEnd(r)

StoreSpec == StoreInit /\ [][StoreNext]_vars

-----------------------------------------------------------------------------
(* The serving process: handler and embedQuery                             *)
(*                                                                         *)
(* An action is the code an invocation runs from one await that yields to  *)
(* the event loop to the next.  The artifact does not change while the     *)
(* process is observed, so readLocalIndex is one step.                     *)

\* The topK argument of line 155.
HandlerTopK == 4

ChatInit ==
    /\ localIndexFile \in Artifacts
    /\ dataDir = localIndexFile.exists
    /\ previousFile = localIndexFile
    /\ WriteIdle
    /\ ReadIdle
    /\ embeddingCache = <<>>
    /\ embedRequests = 0
    /\ requests = 0
    /\ handler = [p \in Procs |-> IdleHandler]
    /\ SplitIdle
    /\ SearchIdle
    /\ IngestIdle

\* Lines 138-153: a request arrives; the method and the question are
\* checked, the question is sanitized and readLocalIndex is called.
HandlerStart(p) ==
    /\ handler[p].pc \in {"idle", "done"}
    /\ requests < MaxRequests
    /\ requests' = requests + 1
    /\ \E method \in Methods, question \in Questions :
          LET fresh == [IdleHandler EXCEPT !.method = method,
                                           !.question = question]
          IN  handler' = [handler EXCEPT ![p] =
                 IF method # "POST"
                 THEN [fresh EXCEPT
                         !.pc = "done",
                         !.response = Response(405, "error",
                                               "Method not allowed", <<>>)]
                 ELSE IF question = <<>>
                 THEN [fresh EXCEPT
                         !.pc = "done",
                         !.response = Response(400, "message",
                                               "No question in the request",
                                               <<>>)]
                 ELSE [fresh EXCEPT
                         !.pc = "read",
                         !.sanitizedQuestion = Sanitize(question)]]
    /\ UNCHANGED <<embeddingCache, embedRequests>>
    /\ UNCHANGED <<splitVars, searchVars, storeVars, ingestVars>>

\* Lines 153-154 and 30-44: readLocalIndex settles; if it rejects, the catch
\* block answers; otherwise embedQuery is called, which looks the question
\* up in embeddingCache and, on a miss, sends the request to /api/embed.
HandlerRead(p) ==
    /\ handler[p].pc = "read"
    /\ LET h == handler[p]
           result == ReadWhole(localIndexFile)
           cached == CacheGet(embeddingCache, h.sanitizedQuestion)
           read == [h EXCEPT !.loaded = result,
                             !.steps = Append(@, "readLocalIndex")]
           called == [read EXCEPT !.steps = Append(@, "embedQuery")]
       IN  IF result.kind # "returned"
           THEN /\ handler' = [handler EXCEPT ![p] =
                      [read EXCEPT
                         !.pc = "done",
                         !.response = ErrorResponse(ReadError(result.kind))]]
                /\ UNCHANGED embedRequests
           ELSE IF CacheHit(cached)
           THEN /\ handler' = [handler EXCEPT ![p] =
                      [called EXCEPT !.pc = "search",
                                     !.queryEmbedding = <<cached[1]>>]]
                /\ UNCHANGED embedRequests
           ELSE /\ handler' = [handler EXCEPT ![p] =
                      [called EXCEPT !.pc = "awaitEmbed"]]
                /\ embedRequests' = embedRequests + 1
    /\ UNCHANGED <<embeddingCache, requests>>
    /\ UNCHANGED <<splitVars, searchVars, storeVars, ingestVars>>

\* Lines 45-76: the request to /api/embed settles; a vector is stored in
\* embeddingCache and returned, anything else is thrown to the catch block.
EmbedResponse(p) ==
    /\ handler[p].pc = "awaitEmbed"
    /\ \E outcome \in EmbedOutcomes :
          IF EmbedSucceeds(outcome)
          THEN /\ embeddingCache' =
                     CacheSet(embeddingCache, handler[p].sanitizedQuestion,
                              outcome.vector)
               /\ handler' = [handler EXCEPT ![p] =
                     [@ EXCEPT !.pc = "search",
                               !.queryEmbedding = <<outcome.vector>>]]
          ELSE /\ handler' = [handler EXCEPT ![p] =
                     [@ EXCEPT
                        !.pc = "done",
                        !.response = ErrorResponse(EmbedQueryError(outcome))]]
               /\ UNCHANGED embeddingCache
    /\ UNCHANGED <<embedRequests, requests>>
    /\ UNCHANGED <<splitVars, searchVars, storeVars, ingestVars>>

\* Lines 155-170 and 83-111: the index is searched, the matches become the
\* source documents and the context, and the request to /api/chat is sent.
HandlerSearch(p) ==
    /\ handler[p].pc = "search"
    /\ LET h == handler[p]
           index == h.loaded.index
           searched == [h EXCEPT !.steps = Append(@, "searchLocalIndex")]
           failed == [searched EXCEPT !.pc = "done",
                                      !.response = ErrorResponse(TypeError)]
       IN  IF SearchThrows(index)
           THEN handler' = [handler EXCEPT ![p] = failed]
           ELSE LET matches == searchLocalIndex(index, h.queryEmbedding[1],
                                                <<HandlerTopK>>)
                IN  IF MapThrows(matches)
                    THEN handler' = [handler EXCEPT ![p] =
                            [failed EXCEPT !.matches = matches]]
                    ELSE handler' = [handler EXCEPT ![p] =
                            [searched EXCEPT
                               !.pc = "awaitChat",
                               !.matches = matches,
                               !.context = Context(SourceDocuments(matches)),
                               !.steps = Append(@, "chatCompletion")]]
    /\ UNCHANGED <<embeddingCache, embedRequests, requests>>
    /\ UNCHANGED <<splitVars, searchVars, storeVars, ingestVars>>

\* Lines 112-131 and 172: the request to /api/chat settles and the answer
\* goes out with the source documents, or the catch block answers.
ChatResponse(p) ==
    /\ handler[p].pc = "awaitChat"
    /\ \E outcome \in ChatOutcomes :
          handler' = [handler EXCEPT ![p] =
             IF outcome.status = 200
             THEN [@ EXCEPT
                     !.pc = "done",
                     !.response = Response(200, "answer",
                                           ChatCompletionText(outcome),
                                           SourceDocuments(handler[p].matches))]
             ELSE [@ EXCEPT
                     !.pc = "done",
                     !.response = ErrorResponse(ChatCompletionError(outcome))]]
    /\ UNCHANGED <<embeddingCache, embedRequests, requests>>
    /\ UNCHANGED <<splitVars, searchVars, storeVars, ingestVars>>

ChatNext ==
    \E p \in Procs :
        \/ HandlerStart(p)
        \/ HandlerRead(p)
        \/ EmbedResponse(p)
        \/ HandlerSearch(p)
        \/ ChatResponse(p)

ChatSpec == ChatInit /\ [][ChatNext]_vars

-----------------------------------------------------------------------------
(* scripts/ingest-data.ts: run                                             *)

\* run rejects with an Error; error names it (NoPdfFiles: lines 113-117,
\* NoTextChunks: lines 144-146).
IngestFail(error) ==
    /\ ingestPc' = "failed"
    /\ ingestError' = error

\* docs/ holds some PDF files; data/local-index.json is absent or left by an
\* earlier run.
IngestInit ==
    /\ pdfFiles \in
          UNION {[1..n -> DocTexts] : n \in 0..MaxDocs}
    /\ fileIndex = 0
    /\ fileChunks = <<>>
    /\ chunkIndex = 0
    /\ items = <<>>
    /\ embedLog = <<>>
    /\ ingestError = ""
    /\ ingestPc = "start"
    /\ localIndexFile \in {NoFile, FileOf(Stringify(OldIndex))}
    /\ dataDir \in {localIndexFile.exists, TRUE}
    /\ previousFile = localIndexFile
    /\ WriteIdle
    /\ ReadIdle
    /\ SplitIdle
    /\ SearchIdle
    /\ ChatIdle

\* Lines 110-120: the files are listed; none is an error; then the PDF
\* parser is loaded, which may fail (lines 62-66).
IngestStart ==
    /\ ingestPc = "start"
    /\ IF Len(pdfFiles) = 0
       THEN /\ IngestFail("NoPdfFiles")
            /\ UNCHANGED fileIndex
       ELSE \/ /\ IngestFail("LoadPdfParser")
               /\ UNCHANGED fileIndex
            \/ /\ ingestPc' = "file"
               /\ fileIndex' = 1
               /\ UNCHANGED ingestError
    /\ UNCHANGED <<pdfFiles, fileChunks, chunkIndex, items, embedLog>>
    /\ UNCHANGED <<storeVars, splitVars, searchVars, chatVars>>

\* Lines 122-126: the next file is read and parsed (either may fail) and its
\* text is split; after the last file the loop ends.
IngestFile ==
    /\ ingestPc = "file"
    /\ IF fileIndex > Len(pdfFiles)
       THEN /\ ingestPc' = "check"
            /\ UNCHANGED <<fileChunks, chunkIndex, ingestError>>
       ELSE \/ /\ \E error \in {"ReadFile", "ParsePdf"} : IngestFail(error)
               /\ UNCHANGED <<fileChunks, chunkIndex>>
            \/ /\ fileChunks' =
                     splitText(pdfFiles[fileIndex], CHUNK_SIZE, CHUNK_OVERLAP)
               /\ chunkIndex' = 0
               /\ ingestPc' = "chunk"
               /\ UNCHANGED ingestError
    /\ UNCHANGED <<pdfFiles, fileIndex, items, embedLog>>
    /\ UNCHANGED <<storeVars, splitVars, searchVars, chatVars>>

\* Lines 128-141: embedText of the next chunk fails (lines 82-106) or gives
\* a vector, which is pushed with the chunk; after the last chunk the file
\* is done.
IngestChunk ==
    /\ ingestPc = "chunk"
    /\ IF chunkIndex = Len(fileChunks)
       THEN /\ fileIndex' = fileIndex + 1
            /\ ingestPc' = "file"
            /\ UNCHANGED <<chunkIndex, items, embedLog, ingestError>>
       ELSE \/ /\ IngestFail("EmbedText")
               /\ UNCHANGED <<fileIndex, chunkIndex, items, embedLog>>
            \/ \E embedding \in IngestVectors :
                  LET chunk == fileChunks[chunkIndex + 1]
                      source == Sources[fileIndex]
                  IN  /\ items' = Append(items,
                             [id |-> vectorId(source, chunkIndex),
                              embedding |-> embedding,
                              metadata |-> [text |-> chunk, source |-> source,
                                            chunk |-> chunkIndex],
                              fields |-> ItemFields])
                      /\ embedLog' = Append(embedLog,
                             [text |-> chunk, embedding |-> embedding])
                      /\ chunkIndex' = chunkIndex + 1
                      /\ UNCHANGED <<fileIndex, ingestPc, ingestError>>
    /\ UNCHANGED <<pdfFiles, fileChunks>>
    /\ UNCHANGED <<storeVars, splitVars, searchVars, chatVars>>

\* Lines 144-153: no item is an error; items[0].embedding of an empty array
\* is a TypeError; otherwise writeLocalIndex is called.
IngestCheck ==
    /\ ingestPc = "check"
    /\ IF EmptyItems(items)
       THEN /\ IngestFail("NoTextChunks")
            /\ UNCHANGED writeVars
       ELSE IF Len(items) = 0
       THEN /\ IngestFail("TypeError")
            /\ UNCHANGED writeVars
       ELSE /\ writeIndex' = BuiltIndex(items)
            /\ written' = 0
            /\ writePc' = "mkdir"
            /\ ingestPc' = "write"
            /\ UNCHANGED ingestError
    /\ UNCHANGED <<pdfFiles, fileIndex, fileChunks, chunkIndex, items, embedLog>>
    /\ UNCHANGED <<fileVars, readVars, splitVars, searchVars, chatVars>>

\* Lines 155-157: writeLocalIndex has resolved.
IngestDone ==
    /\ ingestPc = "write"
    /\ writePc = "done"
    /\ ingestPc' = "done"
    /\ UNCHANGED <<pdfFiles, fileIndex, fileChunks, chunkIndex, items, embedLog,
                   ingestError>>
    /\ UNCHANGED <<storeVars, splitVars, searchVars, chatVars>>

IngestNext ==
    \/ IngestStart
    \/ IngestFile
    \/ IngestChunk
    \/ IngestCheck
    \/ WriteMkdir
    \/ WriteOpen
    \/ WriteChunk
    \/ IngestDone

IngestSpec == IngestInit /\ [][IngestNext]_vars

-----------------------------------------------------------------------------
(* Properties of splitText                                                 *)

\* The overlap the chunker is specified to use: chunkOverlap clamped to
\* [0, chunkSize - 1].
SpecOverlap == IF chunkOverlap < 0 THEN 0
               ELSE IF chunkOverlap > chunkSize - 1 THEN chunkSize - 1
               ELSE chunkOverlap

\* The first fragment followed by every later fragment without its first ov
\* characters.
RECURSIVE Reconstruct(_, _)
Reconstruct(cs, ov) ==
    IF cs = <<>> THEN <<>>
    ELSE IF Len(cs) = 1 THEN cs[1]
    ELSE LET last == cs[Len(cs)]
         IN  Reconstruct(SubSeq(cs, 1, Len(cs) - 1), ov)
                \o SubSeq(last, ov + 1, Len(last))

\* C3 (chunk coverage): when splitText returns for a non-empty normalized
\* text, every fragment is non-empty and at most chunkSize long, the first
\* fragment followed by the later fragments with their leading clamped-overlap
\* characters removed is exactly the normalized text, and a chunkSize of at
\* least the text length gives exactly one fragment, the whole text.
C3_ChunkCoverage ==
    (splitPc = "done" /\ normalized # <<>>) =>
        /\ \A i \in 1..Len(chunks) :
              /\ Len(chunks[i]) <= chunkSize
              /\ chunks[i] # <<>>
              /\ i > 1 => Len(chunks[i]) > SpecOverlap
        /\ Reconstruct(chunks, SpecOverlap) = normalized
        /\ chunkSize >= Len(normalized) => chunks = <<normalized>>

\* A call that returned three or more overlapping fragments of a text
\* holding both letters, for an overlap that had to be clamped.
C3_Witness ==
    /\ splitPc = "done"
    /\ Len(chunks) >= 3
    /\ chunkOverlap >= chunkSize
    /\ overlap >= 1
    /\ \E i, j \in 1..Len(normalized) : normalized[i] # normalized[j]

C9_State ==
    /\ (splitPc \in {"loop", "done"} /\ normalized # <<>>) =>
          overlap \in 0..(chunkSize - 1)
    /\ splitPc = "loop" => start < Len(normalized)
    /\ \A i \in 1..Len(windows) :
          /\ windows[i][1] < windows[i][2]
          /\ \A j \in 1..Len(windows) : i < j =>
                /\ windows[i][1] < windows[j][1]
                /\ windows[i][2] < Len(normalized)
    /\ (splitPc = "done" /\ normalized # <<>>) =>
          /\ windows # <<>>
          /\ windows[Len(windows)][2] = Len(normalized)

C9_Step ==
    (splitPc = "loop" /\ splitPc' = "loop") =>
        /\ start' = start + (chunkSize - overlap)
        /\ start' > start
        /\ Len(chunks') = Len(chunks) + 1

\* C9 (termination): splitText returns for every text, chunkSize >= 1 and
\* chunkOverlap: the overlap used lies in [0, chunkSize - 1], every pass of
\* the loop that continues moves the window start forward by
\* chunkSize - overlap >= 1, the loop ends with the fragment that reaches the
\* end of the text, no window is emitted twice and no fragment is empty.
C9_Terminates ==
    /\ []C9_State
    /\ [][C9_Step]_vars
    /\ <>(splitPc = "done")

\* A call whose overlap was negative and one whose overlap was clamped from
\* above, each having gone round the loop several times.
C9_Witness ==
    /\ splitPc = "done"
    /\ Len(windows) >= 3
    /\ chunkOverlap > chunkSize
    /\ overlap = chunkSize - 1
    /\ overlap >= 1

-----------------------------------------------------------------------------
(* Properties of searchLocalIndex                                          *)

\* The position in the searched index of a record of it.
Position(item) == item.metadata.chunk + 1

\* The similarity score of the record at position p of the searched index.
ScoreAt(p) == cosineSimilarity(searchQuery, searchIndex.items[p].embedding)

\* C4 (ranking): searchLocalIndex returns exactly the first
\* min(topK, items.length) records of the index's records stably sorted by
\* descending similarity to the query: scores do not increase along the
\* result, records of equal score keep their index order, every record left
\* out ranks behind every record returned, topK is 4 when omitted, and a topK
\* above the number of records returns them all.
C4_Ranking ==
    searchPc = "done" =>
        LET n == Len(searchIndex.items)
            k == IF searchTopK = <<>> THEN 4 ELSE searchTopK[1]
            m == Len(searchResult)
            returned == {Position(searchResult[i]) : i \in 1..m}
        IN  /\ m = (IF k < n THEN k ELSE n)
            /\ \A i \in 1..m :
                  /\ Position(searchResult[i]) \in 1..n
                  /\ searchResult[i] = searchIndex.items[Position(searchResult[i])]
            /\ \A i, j \in 1..m : i < j =>
                  LET d == ScoreDiff(ScoreAt(Position(searchResult[i])),
                                     ScoreAt(Position(searchResult[j])))
                  IN  \/ d > 0
                      \/ d = 0 /\ Position(searchResult[i]) < Position(searchResult[j])
            /\ \A p \in (1..n) \ returned : \A i \in 1..m :
                  LET d == ScoreDiff(ScoreAt(Position(searchResult[i])), ScoreAt(p))
                  IN  \/ d > 0
                      \/ d = 0 /\ Position(searchResult[i]) < p

\* A search with topK omitted over five records that returned four of them,
\* two of equal score among them, in an order other than the index order.
C4_Witness ==
    /\ searchPc = "done"
    /\ searchTopK = <<>>
    /\ Len(searchIndex.items) = 5
    /\ Len(searchResult) = 4
    /\ \E i \in 1..3 : Position(searchResult[i]) > Position(searchResult[i + 1])
    /\ \E i \in 1..3 :
          ScoreDiff(ScoreAt(Position(searchResult[i])),
                    ScoreAt(Position(searchResult[i + 1]))) = 0

-----------------------------------------------------------------------------
(* Properties of the index store                                           *)

\* C1 (atomic save): every readLocalIndex call that runs concurrently with
\* the one writeLocalIndex call observes either the complete previous
\* artifact (or its absence, when there was none) or the complete new
\* artifact, never an empty, truncated or mixed one.
C1_AtomicSave ==
    \A r \in Readers :
        readPc[r] = "done" =>
            readResult[r] \in {ReadWhole(previousFile), Returned(writeIndex)}

\* A reader was handed, as a LocalIndex, a text that is neither the previous
\* artifact nor the new one (records of both).
C1_MixedRead ==
    \E r \in Readers :
        /\ readResult[r].kind = "returned"
        /\ readResult[r].index \notin {OldIndex, writeIndex}

-----------------------------------------------------------------------------
(* Properties of the serving process                                       *)

\* A request that passed the checks of lines 140-148.
Admitted(h) == h.method = "POST" /\ h.question # <<>>

\* C2 (missing index): for every POST request with a non-empty question, if
\* the artifact does not exist then readLocalIndex fails with the ENOENT
\* condition and the handler answers 400 with the message telling the
\* operator to run the ingestion, never with the generic 500 answer; and
\* that answer is given for no other failure.
C2_IndexNotFound ==
    \A p \in Procs :
        LET h == handler[p]
            notFound == [status |-> 400, kind |-> "error",
                         text |-> "Local index not found. Run npm run ingest first.",
                         sourceDocuments |-> <<>>]
        IN  (h.pc = "done" /\ Admitted(h)) =>
                /\ ~localIndexFile.exists =>
                      /\ h.loaded.kind = "ENOENT"
                      /\ h.response = notFound
                /\ (h.response.text = notFound.text \/ h.loaded.kind = "ENOENT")
                      => ~localIndexFile.exists

\* An admitted request was answered while no artifact existed.
C2_Witness ==
    \E p \in Procs :
        /\ handler[p].pc = "done"
        /\ Admitted(handler[p])
        /\ ~localIndexFile.exists
        /\ handler[p].response.status = 400

C6_Step ==
    \A p \in Procs :
        LET h == handler[p]
            h2 == handler'[p]
            t == h.sanitizedQuestion
        IN  \* embedQuery(t) is called
            /\ (h.pc = "read" /\ h2.pc \in {"search", "awaitEmbed"}) =>
                  IF t \in DOMAIN embeddingCache
                  THEN /\ h2.pc = "search"
                       /\ h2.queryEmbedding = <<embeddingCache[t]>>
                       /\ embedRequests' = embedRequests
                  ELSE /\ h2.pc = "awaitEmbed"
                       /\ embedRequests' = embedRequests + 1
            \* embedQuery(t) fails
            /\ (h.pc = "awaitEmbed" /\ h2.pc = "done") =>
                  embeddingCache' = embeddingCache
            \* embedQuery(t) succeeds after a miss
            /\ (h.pc = "awaitEmbed" /\ h2.pc = "search") =>
                  /\ DOMAIN embeddingCache' = DOMAIN embeddingCache \cup {t}
                  /\ embeddingCache'[t] = h2.queryEmbedding[1]
                  /\ \A k \in DOMAIN embeddingCache \ {t} :
                        embeddingCache'[k] = embeddingCache[k]

\* C6 (query cache): the cache is keyed on the exact string given to
\* embedQuery: a call for a string in the cache returns the stored vector,
\* whatever it is, and sends no request to the embedding service; a call for
\* a string not in the cache sends one; a failed call leaves the cache as it
\* was; a successful one stores its vector under that string and changes no
\* other entry, and no entry is ever removed.
C6_QueryCache ==
    /\ [][C6_Step]_vars
    /\ [][\A k \in DOMAIN embeddingCache : k \in DOMAIN embeddingCache']_vars
    /\ [](\A k \in DOMAIN embeddingCache : k \in {Sanitize(q) : q \in Questions})

\* Two requests called embedQuery and one request went to the service: the
\* other call was served from the cache, which held the empty vector.
C6_Witness ==
    \E p, q \in Procs :
        /\ p # q
        /\ handler[p].pc = "search"
        /\ handler[p].queryEmbedding = << <<>> >>
        /\ Len(handler[q].steps) >= 2
        /\ handler[q].sanitizedQuestion = handler[p].sanitizedQuestion
        /\ requests = 2
        /\ embedRequests = 1

\* The shape the type LocalIndex asks of a parsed value.
IsLocalIndex(v) ==
    /\ "items" \in v.fields
    /\ \A i \in 1..Len(v.items) :
          {"embedding", "metadata"} \subseteq v.items[i].fields

\* The artifact exists and is no serialized LocalIndex.
Corrupt(file) ==
    /\ file.exists
    /\ IsJson(file.content) => ~IsLocalIndex(ParseJson(file.content))

\* C7 (corrupt index): whenever the artifact exists but does not parse into
\* the shape of a LocalIndex, readLocalIndex fails (and not with the
\* missing-index condition), the value is never passed to searchLocalIndex,
\* and the answer is not the index-not-found answer.
C7_CorruptIndex ==
    \A p \in Procs :
        LET h == handler[p]
        IN  (Corrupt(localIndexFile) /\ h.loaded.kind # "pending") =>
                /\ h.loaded.kind \notin {"returned", "ENOENT"}
                /\ \A i \in 1..Len(h.steps) : h.steps[i] # "searchLocalIndex"
                /\ h.response.text # IndexNotFoundMessage

\* A JSON value of another shape reached the ranker and the request ended in
\* the generic 500 answer.
C7_ReachedRanker ==
    \E p \in Procs :
        /\ Corrupt(localIndexFile)
        /\ handler[p].loaded.kind = "returned"
        /\ handler[p].matches # <<>>
        /\ handler[p].response.status = 500

IsPrefix(s, t) == Len(s) <= Len(t) /\ s = SubSeq(t, 1, Len(s))

\* The context and the source documents of a request are those of its
\* matches, in their order, and the matches are in ranked order.
ContextInRankedOrder(h) ==
    /\ Len(h.response.sourceDocuments) = Len(h.matches)
    /\ \A i \in 1..Len(h.matches) :
          h.response.sourceDocuments[i].pageContent = h.matches[i].metadata.text
    /\ h.context = Join([i \in 1..Len(h.matches) |-> h.matches[i].metadata.text],
                        <<"\n", "\n">>)
    /\ Len(h.matches) = Min(4, Len(h.loaded.index.items))
    /\ \A i, j \in 1..Len(h.matches) : i < j =>
          LET d == ScoreDiff(
                      cosineSimilarity(h.queryEmbedding[1], h.matches[i].embedding),
                      cosineSimilarity(h.queryEmbedding[1], h.matches[j].embedding))
          IN  \/ d > 0
              \/ d = 0 /\ h.matches[i].metadata.chunk < h.matches[j].metadata.chunk

\* C10 as stated: every request first embeds the question, then loads the
\* index, then ranks, then builds the context in ranked order.
C10_EmbedThenLoad ==
    \A p \in Procs :
        /\ IsPrefix(handler[p].steps,
                    <<"embedQuery", "readLocalIndex", "searchLocalIndex",
                      "chatCompletion">>)
        /\ handler[p].response.status = 200 => ContextInRankedOrder(handler[p])

\* C10 as amended: every request first loads the index, then embeds the
\* question (possibly filling the cache), then ranks, then builds the context
\* from the text of the returned records in ranked order, separated by a
\* blank line; the index load precedes the embedding step.
C10_LoadThenEmbed ==
    \A p \in Procs :
        /\ IsPrefix(handler[p].steps,
                    <<"readLocalIndex", "embedQuery", "searchLocalIndex",
                      "chatCompletion">>)
        /\ handler[p].response.status = 200 => ContextInRankedOrder(handler[p])

\* A request answered with four source documents that are not in index
\* order.
C10_Witness ==
    \E p \in Procs :
        /\ handler[p].response.status = 200
        /\ Len(handler[p].steps) = 4
        /\ Len(handler[p].response.sourceDocuments) = 4
        /\ \E i \in 1..3 :
              handler[p].matches[i].metadata.chunk
                 > handler[p].matches[i + 1].metadata.chunk

-----------------------------------------------------------------------------
(* Properties of the ingestion run                                         *)

\* Every file there is has been processed.
AllFilesProcessed == pdfFiles = <<>> \/ fileIndex > Len(pdfFiles)

\* C5 (empty corpus): a run that has produced no record never calls
\* writeLocalIndex and leaves the artifact as it was; the index given to
\* writeLocalIndex, and any complete artifact on disk, has at least one
\* item; and a run that has processed every file (or found none) with no
\* record produced ends with one of the two empty-corpus errors.
C5_EmptyCorpus ==
    /\ items = <<>> =>
          /\ writePc = "idle"
          /\ localIndexFile = previousFile
    /\ writePc # "idle" => writeIndex.items # <<>>
    /\ (localIndexFile.exists /\ IsJson(localIndexFile.content)) =>
          ParseJson(localIndexFile.content).items # <<>>
    /\ (items = <<>> /\ AllFilesProcessed
            /\ ingestPc \in {"write", "done", "failed"}) =>
          /\ ingestPc = "failed"
          /\ ingestError \in {"NoPdfFiles", "NoTextChunks"}

\* Two files were processed, neither gave a chunk, and the run failed with
\* the artifact of an earlier run still in place.
C5_Witness ==
    /\ Len(pdfFiles) = 2
    /\ fileIndex = 3
    /\ items = <<>>
    /\ ingestPc = "failed"
    /\ ingestError = "NoTextChunks"
    /\ localIndexFile.exists

\* C8 (dimension): in every index an ingestion run has written, all
\* embeddings have one length and dimension is that length, whatever vectors
\* the embedding service returned.
C8_Dimension ==
    (ingestPc = "done" /\ IsJson(localIndexFile.content)) =>
        LET index == ParseJson(localIndexFile.content)
        IN  \A i \in 1..Len(index.items) :
                Len(index.items[i].embedding) = index.dimension

\* A finished run whose artifact holds embeddings of two lengths.
C8_MixedLengths ==
    /\ ingestPc = "done"
    /\ \E i, j \in 1..Len(items) :
          Len(items[i].embedding) # Len(items[j].embedding)
    /\ localIndexFile = FileOf(Stringify(BuiltIndex(items)))

-----------------------------------------------------------------------------
(* Properties of cosineSimilarity                                          *)

\* The sum of x[i] * y[i] over the positions of x, for Len(x) = Len(y).
RECURSIVE SumOfProducts(_, _)
SumOfProducts(x, y) ==
    IF x = <<>> THEN 0
    ELSE x[1] * y[1] + SumOfProducts(Tail(x), Tail(y))

\* The cosine similarity of two vectors of one length, as its signed square
\* <<num, den>>; 0 when either has zero magnitude.
CosineOfEqualLengths(x, y) ==
    LET dot == SumOfProducts(x, y)
        magX2 == SumOfProducts(x, x)
        magY2 == SumOfProducts(y, y)
    IN  IF magX2 = 0 \/ magY2 = 0 THEN <<0, 1>>
        ELSE <<(IF dot < 0 THEN -1 ELSE 1) * dot * dot, magX2 * magY2>>

\* The cosine similarity of both vectors cut to the shorter one's length.
CosineOverSharedPrefix(a, b) ==
    LET n == IF Len(a) < Len(b) THEN Len(a) ELSE Len(b)
    IN  CosineOfEqualLengths(SubSeq(a, 1, n), SubSeq(b, 1, n))

\* C11 (shared prefix): for the query and every record of a searched index,
\* cosineSimilarity equals the cosine similarity of the two vectors cut to
\* min(length(a), length(b)); when either vector has zero magnitude the
\* result is 0; and the divisor is never zero.
C11_SharedPrefix ==
    searchPc = "done" =>
        \A p \in 1..Len(searchIndex.items) :
            LET a == searchQuery
                b == searchIndex.items[p].embedding
                score == cosineSimilarity(a, b)
                cut == CosineOverSharedPrefix(a, b)
            IN  /\ score[1] * cut[2] = cut[1] * score[2]
                /\ score[2] > 0
                /\ (SumOfProducts(a, a) = 0 \/ SumOfProducts(b, b) = 0)
                      => score[1] = 0

\* A one-component query ranked [1,0] before the earlier record [9,1], whose
\* first component points the same way: the components behind the shared
\* prefix lowered its score.
C11_TrailingComponents ==
    /\ searchPc = "done"
    /\ searchQuery = <<1>>
    /\ Len(searchResult) >= 2
    /\ searchResult[1].embedding = <<1, 0>>
    /\ searchResult[2].embedding = <<9, 1>>
    /\ Position(searchResult[1]) > Position(searchResult[2])
    /\ LET cut == CosineOverSharedPrefix(searchQuery, <<9, 1>>)
       IN  cut[1] = cut[2]

-----------------------------------------------------------------------------
(* Properties of the ingestion run: what is written, and when              *)

\* The source, chunk index and text of every record a complete run over the
\* first n files builds, in order.
RECURSIVE RecordsOfFiles(_)
RecordsOfFiles(n) ==
    IF n = 0 THEN <<>>
    ELSE LET fragments == splitText(pdfFiles[n], 1000, 200)
         IN  RecordsOfFiles(n - 1)
                \o [c \in 1..Len(fragments) |->
                       [source |-> Sources[n], chunk |-> c - 1,
                        text |-> fragments[c]]]

\* The source, chunk index and text of the records its.
RecordKeys(its) ==
    [i \in 1..Len(its) |->
        [source |-> its[i].metadata.source, chunk |-> its[i].metadata.chunk,
         text |-> its[i].metadata.text]]

C12_State ==
    \* a failed run has not called writeLocalIndex and the artifact is as
    \* it was
    /\ ingestPc = "failed" =>
          /\ writePc = "idle"
          /\ localIndexFile = previousFile
    /\ localIndexFile # previousFile => writePc \in {"write", "done"}
    \* records are built in order of file and chunk, each with the vector
    \* returned for its own text
    /\ IsPrefix(RecordKeys(items), RecordsOfFiles(Len(pdfFiles)))
    /\ Len(embedLog) = Len(items)
    /\ \A i \in 1..Len(items) :
          /\ embedLog[i].text = items[i].metadata.text
          /\ embedLog[i].embedding = items[i].embedding
          /\ items[i].id = <<items[i].metadata.source, items[i].metadata.chunk>>
    \* writeLocalIndex is called with every record of every file
    /\ writePc # "idle" =>
          /\ ingestPc \in {"write", "done"}
          /\ RecordKeys(items) = RecordsOfFiles(Len(pdfFiles))
          /\ writeIndex.items = items
    /\ ingestPc = "done" =>
          /\ IsJson(localIndexFile.content)
          /\ ParseJson(localIndexFile.content).items = items

\* C12 (one write, after all embeddings): run calls writeLocalIndex at most
\* once, and only when every chunk of every file has been embedded; a run
\* that fails in reading, parsing or embedding leaves the artifact as it was
\* (no index of the chunks processed so far is written); and every record
\* written holds the vector returned for its own text, with chunk indices
\* 0..n-1 in order within each source.
C12_WriteOnce ==
    /\ []C12_State
    /\ [][writePc # "idle" => writePc' # "idle"]_vars
    /\ [][(writePc' = "mkdir" /\ writePc # "mkdir") => writePc = "idle"]_vars

\* The run failed at an embedding call in the second file, with records of
\* the first file built, and the artifact of an earlier run is untouched.
C12_Witness ==
    /\ ingestPc = "failed"
    /\ ingestError = "EmbedText"
    /\ fileIndex = 2
    /\ Len(items) >= 2
    /\ previousFile.exists
    /\ localIndexFile = previousFile

=============================================================================
